---- MODULE Spec2Model ----
(***************************************************************************)
(* PPO for autoregressive policies (rl4co/models/rl/ppo/ppo.py).           *)
(*                                                                         *)
(* Numbers.  Real-valued quantities are kept exact as scaled integers:     *)
(*   - fractions (mini_batch_size as a float) are num/den with den a power *)
(*     of two, so that int(batch_size * f) is Floor(batch_size*num/den)    *)
(*     with no rounding error in binary floating point;                    *)
(*   - clip_range, vf_lambda, entropy_lambda, max_grad_norm are in tenths; *)
(*   - log-likelihoods are integer multiples of ln 2, so that              *)
(*     exp(new - old) = 2^(new - old) is exact; ratios are in tenths;      *)
(*   - a mean over a minibatch of n instances is the pair (sum, n);        *)
(*   - a normalised advantage is kept as its numerator n*adv_i - sum(adv)  *)
(*     with the common positive factor 1/(n*(std + 1e-8)) kept symbolic    *)
(*     (unit "std"); with n = 1 the unbiased std is NaN (unit "nan").      *)
(***************************************************************************)
EXTENDS Integers, Sequences, FiniteSets, TLC

VARIABLES
    pc,               \* position of the control flow
    args,             \* the arguments PPO.__init__ was called with
    ppo_cfg,          \* self.ppo_cfg
    phase,            \* the phase argument of the current shared_step
    td,               \* the rollout record: per instance logprobs, reward, action
    rollout,          \* the output of the no-gradient policy call of this step
    out,              \* the local variable `out` of shared_step
    mini_batch_size,  \* the local variable mini_batch_size (effective size)
    order,            \* the permutation the DataLoader drew for this inner epoch
    batches,          \* the minibatches (index sequences) served in this inner epoch
    epoch,            \* number of inner epochs started
    sub_td,           \* the minibatch of the latest iteration
    loc,              \* locals of the latest iteration: ratio, adv, losses
    events,           \* the update events of the latest iteration, in order
    params,           \* version of the policy and critic parameters
    params0,          \* parameter version when the current shared_step began
    nLoss,            \* loss computations in the current shared_step
    nStep,            \* optimizer steps in the current shared_step
    error,            \* the exception the current shared_step raised, or "none"
    ret               \* what the current shared_step returned

vars == <<pc, args, ppo_cfg, phase, td, rollout, out, mini_batch_size, order,
          batches, epoch, sub_td, loc, events, params, params0, nLoss, nStep,
          error, ret>>

(***************************************************************************)
(* Bounds of the model.                                                    *)
(***************************************************************************)
MaxB == 3          \* largest batch size
MaxEpochs == 2     \* largest ppo_epochs

(***************************************************************************)
(* Program constants.                                                      *)
(***************************************************************************)
DefaultMiniBatchSize == 128      \* default_mini_batch_size
DefaultFractionNum == 1          \* default_mini_batch_fraction = 0.25 = 1/4
DefaultFractionDen == 4
DefaultClipRange == 2            \* clip_range = 0.2, in tenths
DefaultVfLambda == 5             \* vf_lambda = 0.5, in tenths
DefaultMaxGradNorm == 5          \* max_grad_norm = 0.5, in tenths
DefaultPpoEpochs == 2            \* ppo_epochs = 2
Tenth == 10                      \* scale of ratios and of the hyperparameters

(***************************************************************************)
(* Arithmetic helpers.                                                     *)
(***************************************************************************)
Min(a, b) == IF a <= b THEN a ELSE b
Max(a, b) == IF a >= b THEN a ELSE b
Abs(a) == IF a >= 0 THEN a ELSE -a

RECURSIVE SumSeq(_)
SumSeq(s) == IF s = <<>> THEN 0 ELSE Head(s) + SumSeq(Tail(s))

RECURSIVE Concat(_)
Concat(ss) == IF ss = <<>> THEN <<>> ELSE Head(ss) \o Concat(Tail(ss))

RECURSIVE Pow2(_)
Pow2(k) == IF k = 0 THEN 1 ELSE 2 * Pow2(k - 1)

CeilDiv(a, b) == (a + b - 1) \div b

Perms(n) == {p \in [1..n -> 1..n] : \A i, j \in 1..n : p[i] = p[j] => i = j}

Count(s, x) == Cardinality({i \in 1..Len(s) : s[i] = x})

(***************************************************************************)
(* Values of mini_batch_size: a Python int, a Python float (num/den), or   *)
(* an object of any other type.                                            *)
(***************************************************************************)
IntVal(n) == [kind |-> "int", num |-> n, den |-> 1]
FloatVal(n, d) == [kind |-> "float", num |-> n, den |-> d]
OtherVal == [kind |-> "other", num |-> 0, den |-> 1]

\* max_grad_norm: None, or a float in tenths
NoneVal == [kind |-> "None", num |-> 0, den |-> 1]

(***************************************************************************)
(* PPO.__init__: normalisation of mini_batch_size.                         *)
(***************************************************************************)
\* isinstance(mini_batch_size, float) and (mini_batch_size <= 0 or mini_batch_size > 1)
BadFraction(mbs) ==
    /\ mbs.kind = "float"
    /\ (mbs.num <= 0 \/ mbs.num > mbs.den)

\* a strict comparison in place of <=
BadInteger_Strict(mbs) ==
    /\ mbs.kind = "int"
    /\ mbs.num < 0

\* isinstance(mini_batch_size, int) and (mini_batch_size <= 0)
BadInteger(mbs) ==
    /\ mbs.kind = "int"
    /\ mbs.num <= 0

FixFraction(mbs) ==
    IF BadFraction(mbs) THEN FloatVal(DefaultFractionNum, DefaultFractionDen) ELSE mbs

FixInteger(mbs) ==
    IF BadInteger(mbs) THEN IntVal(DefaultMiniBatchSize) ELSE mbs

ResolveMiniBatchSize(mbs) == FixInteger(FixFraction(mbs))

MakeCfg(a) ==
    [clip_range |-> a.clip_range,
     ppo_epochs |-> a.ppo_epochs,
     mini_batch_size |-> ResolveMiniBatchSize(a.mini_batch_size),
     vf_lambda |-> a.vf_lambda,
     entropy_lambda |-> a.entropy_lambda,
     normalize_adv |-> a.normalize_adv,
     max_grad_norm |-> a.max_grad_norm]

(***************************************************************************)
(* The rollout: what the policy returns for one instance when it decodes   *)
(* (the policy and the environment are collaborators; their outcomes are   *)
(* drawn).                                                                 *)
(***************************************************************************)
Outcomes ==
    {[action |-> 0, logprobs |-> -1, reward |-> 0],
     [action |-> 1, logprobs |-> -2, reward |-> 1]}

Rollouts(B) == [1..B -> Outcomes]

(***************************************************************************)
(* shared_step, lines 137-148: the effective minibatch size.               *)
(***************************************************************************)
\* int(batch_size * fraction): truncation of a non-negative product
FractionOf(B, mbs) == (B * mbs.num) \div mbs.den

\* lines 140-145; "ValueError" stands for the raise of line 145
InferMiniBatchSize(B, mbs) ==
    IF mbs.kind = "float" THEN FractionOf(B, mbs)
    ELSE IF mbs.kind = "int" THEN mbs.num
    ELSE -1

\* the raise of line 145 left out
TypeErrorRaised_Never(mbs) == FALSE

TypeErrorRaised(mbs) == mbs.kind \notin {"float", "int"}

\* lines 147-148
ClampToBatch(m, B) == IF m > B THEN B ELSE m

EffectiveMiniBatchSize(B, mbs) == ClampToBatch(InferMiniBatchSize(B, mbs), B)

(***************************************************************************)
(* DataLoader(dataset, batch_size, shuffle=True): the constructor rejects  *)
(* a batch size that is not positive; each iteration over it draws a fresh *)
(* permutation and serves it in consecutive chunks of batch_size, the last *)
(* chunk being shorter when batch_size does not divide the batch.          *)
(***************************************************************************)
DataLoaderRejects(m) == m <= 0

\* chunks one index too long
NextBatch_OffByOne(ord, consumed, m) ==
    SubSeq(ord, consumed + 1, Min(consumed + m + 1, Len(ord)))

NextBatch(ord, consumed, m) ==
    SubSeq(ord, consumed + 1, Min(consumed + m, Len(ord)))

Consumed == Len(Concat(batches))

\* the minibatch read by position instead of by drawn index
SubTd_Positional(t, idx) == [idx |-> idx, rec |-> [i \in 1..Len(idx) |-> t[i]]]

\* the minibatch the collate function builds for the drawn indices
SubTd(t, idx) == [idx |-> idx, rec |-> [i \in 1..Len(idx) |-> t[idx[i]]]]

(***************************************************************************)
(* The surrogate loss engine, lines 167-209.                               *)
(***************************************************************************)
\* exp(d * ln 2) in tenths; exact for d >= -1
Exp2Tenths(d) == IF d >= 0 THEN Tenth * Pow2(d) ELSE Tenth \div Pow2(-d)

\* line 178: ratio = exp(ll.sum(-1) - logprobs), per instance
Ratio(ll, sub) == [i \in 1..Len(ll) |-> Exp2Tenths(ll[i] - sub.rec[i].logprobs)]

\* line 184: adv = previous_reward - value_pred.detach()
RawAdvantage(sub, value_pred) ==
    [i \in 1..Len(value_pred) |-> sub.rec[i].reward - value_pred[i]]

\* line 188: (adv - adv.mean()) / (adv.std() + 1e-8); the unbiased std of a
\* single element is NaN
NormalizeAdv(a) ==
    IF Len(a) = 1
    THEN [num |-> [i \in 1..Len(a) |-> 0], unit |-> "nan"]
    ELSE [num |-> [i \in 1..Len(a) |-> Len(a) * a[i] - SumSeq(a)], unit |-> "std"]

\* lines 184-188
Advantage(sub, value_pred, cfg) ==
    IF cfg.normalize_adv
    THEN NormalizeAdv(RawAdvantage(sub, value_pred))
    ELSE [num |-> RawAdvantage(sub, value_pred), unit |-> "one"]

\* the upper clamp left out
Clamp_NoUpper(x, lo, hi) == Max(x, lo)

\* torch.clamp(x, lo, hi): max with lo, then min with hi
Clamp(x, lo, hi) == Min(Max(x, lo), hi)

\* lines 191-198, one instance: min(ratio * adv, clamp(ratio, 1-eps, 1+eps) * adv)
SurrogateTerm(r, a, clip) ==
    Min(r * a, Clamp(r, Tenth - clip, Tenth + clip) * a)

\* lines 191-199: -mean(...), as numerator over Tenth * n
SurrogateLoss(ratio, adv, cfg) ==
    IF adv.unit = "nan"
    THEN [num |-> 0, den |-> Tenth * Len(ratio), unit |-> "nan"]
    ELSE [num |-> 0 - SumSeq([i \in 1..Len(ratio) |->
                        SurrogateTerm(ratio[i], adv.num[i], cfg.clip_range)]),
          den |-> Tenth * Len(ratio),
          unit |-> adv.unit]

\* twice the Huber loss (delta = 1) of one residual
HuberTwice(d) == IF Abs(d) <= 1 THEN d * d ELSE 2 * Abs(d) - 1

\* line 202: F.huber_loss(value_pred, previous_reward), mean reduction
ValueLoss(sub, value_pred) ==
    [num |-> SumSeq([i \in 1..Len(value_pred) |->
                        HuberTwice(value_pred[i] - sub.rec[i].reward)]),
     den |-> 2 * Len(value_pred),
     unit |-> "one"]

\* entropy.mean()
EntropyMean(entropy) ==
    [num |-> SumSeq(entropy), den |-> Len(entropy), unit |-> "one"]

\* lines 205-209: surrogate + vf_lambda * value_loss - entropy_lambda * entropy.mean()
\* over the common denominator 2 * Tenth * Tenth * n; `scaled` carries the
\* unit of the surrogate loss, `plain` is unit-free
TotalLoss(s, v, e, cfg) ==
    [scaled |-> 2 * Tenth * s.num,
     plain |-> Tenth * cfg.vf_lambda * v.num - 2 * Tenth * cfg.entropy_lambda * e.num,
     den |-> 2 * Tenth * Tenth * e.den,
     unit |-> s.unit]

NoneNum == [num |-> 0, den |-> 1, unit |-> "None"]
NoneLoss == [scaled |-> 0, plain |-> 0, den |-> 1, unit |-> "None"]

NoLocals ==
    [ratio |-> <<>>, adv |-> [num |-> <<>>, unit |-> "None"], version |-> -1,
     surrogate_loss |-> NoneNum, value_loss |-> NoneNum, entropy |-> NoneNum,
     loss |-> NoneLoss]

\* the locals of one iteration of the inner loop
Locals(sub, ll, entropy, value_pred, cfg, version) ==
    LET ratio == Ratio(ll, sub)
        adv == Advantage(sub, value_pred, cfg)
        s == SurrogateLoss(ratio, adv, cfg)
        v == ValueLoss(sub, value_pred)
        e == EntropyMean(entropy)
    IN  [ratio |-> ratio, adv |-> adv, version |-> version,
         surrogate_loss |-> s, value_loss |-> v, entropy |-> e,
         loss |-> TotalLoss(s, v, e, cfg)]

(***************************************************************************)
(* The optimization step, lines 214-223.                                   *)
(***************************************************************************)
\* opt.step() left out
UpdateEvents_NoStep(cfg) ==
    <<"loss", "zero_grad", "backward">>
    \o (IF cfg.max_grad_norm.kind # "None" THEN <<"clip_gradients">> ELSE <<>>)

\* the gradients clipped whether or not max_grad_norm is set
UpdateEvents_AlwaysClip(cfg) ==
    <<"loss", "zero_grad", "backward", "clip_gradients", "step">>

UpdateEvents(cfg) ==
    <<"loss", "zero_grad", "backward">>
    \o (IF cfg.max_grad_norm.kind # "None" THEN <<"clip_gradients">> ELSE <<>>)
    \o <<"step">>

(***************************************************************************)
(* The dictionary `out`.                                                   *)
(***************************************************************************)
NoOut ==
    [src |-> "none", idx |-> <<>>, reward |-> <<>>, version |-> -1,
     loss |-> NoneLoss, surrogate_loss |-> NoneNum, value_loss |-> NoneNum,
     entropy |-> NoneNum]

\* line 134: the policy decodes the whole batch
RolloutOut(recs, version) ==
    [src |-> "rollout", idx |-> [i \in 1..Len(recs) |-> i],
     reward |-> [i \in 1..Len(recs) |-> recs[i].reward], version |-> version,
     loss |-> NoneLoss, surrogate_loss |-> NoneNum, value_loss |-> NoneNum,
     entropy |-> NoneNum]

\* line 168: `out` is rebound to the output of the policy scoring the minibatch;
\* its reward is the environment's reward of the stored actions
ScoreOut(sub, version) ==
    [src |-> "score", idx |-> sub.idx,
     reward |-> [i \in 1..Len(sub.idx) |-> sub.rec[i].reward], version |-> version,
     loss |-> NoneLoss, surrogate_loss |-> NoneNum, value_loss |-> NoneNum,
     entropy |-> NoneNum]

\* lines 225-232: out.update({...})
OutUpdate(o, l) ==
    [o EXCEPT !.loss = l.loss, !.surrogate_loss = l.surrogate_loss,
              !.value_loss = l.value_loss, !.entropy = l.entropy]

\* RL4COLitModule.log_metrics: the mean of each logged entry of `out`
LogMetrics(o) ==
    [reward |-> [num |-> SumSeq(o.reward), den |-> Len(o.reward)],
     loss |-> o.loss, surrogate_loss |-> o.surrogate_loss,
     value_loss |-> o.value_loss, entropy |-> o.entropy]

NoRet == [returned |-> FALSE, loss |-> NoneLoss, metrics |-> LogMetrics(NoOut)]

\* line 235
Return(o) == [returned |-> TRUE, loss |-> o.loss, metrics |-> LogMetrics(o)]

(***************************************************************************)
(* Inputs.                                                                 *)
(***************************************************************************)
Phases == {"train", "val", "test"}

Quarter(n) == FloatVal(n, DefaultFractionDen)

\* the constructor arguments of the training-step specification
MainArgs ==
    [clip_range : {DefaultClipRange},
     ppo_epochs : 0..MaxEpochs,
     mini_batch_size : {IntVal(0), IntVal(2),
                        Quarter(1), Quarter(2), Quarter(4), OtherVal},
     vf_lambda : {DefaultVfLambda},
     entropy_lambda : {0},
     normalize_adv : {FALSE},
     max_grad_norm : {NoneVal, FloatVal(DefaultMaxGradNorm, Tenth)}]

\* the constructor arguments of the configuration specification
AllArgs ==
    [clip_range : {-DefaultClipRange, 0, DefaultClipRange},
     ppo_epochs : -1..MaxEpochs,
     mini_batch_size : {IntVal(n) : n \in -2..MaxB} \cup {IntVal(DefaultMiniBatchSize)}
                       \cup {Quarter(n) : n \in -1..6} \cup {OtherVal},
     vf_lambda : {-DefaultVfLambda, 0, DefaultVfLambda},
     entropy_lambda : {0, 1},
     normalize_adv : BOOLEAN,
     max_grad_norm : {NoneVal, FloatVal(-DefaultMaxGradNorm, Tenth),
                      FloatVal(DefaultMaxGradNorm, Tenth)}]

\* what the policy and the critic return for the instances of a minibatch
LlDrift == {0, 1}
ValuePreds == {0, 1}
Entropies == {1}

(***************************************************************************)
(* Initial state: the module is not constructed yet.                       *)
(***************************************************************************)
NoSub == [idx |-> <<>>, rec |-> <<>>]
NoRollout == [recs |-> <<>>, version |-> -1]

Init ==
    /\ pc = "new"
    /\ args = [clip_range |-> DefaultClipRange, ppo_epochs |-> DefaultPpoEpochs,
               mini_batch_size |-> Quarter(DefaultFractionNum),
               vf_lambda |-> DefaultVfLambda, entropy_lambda |-> 0,
               normalize_adv |-> FALSE,
               max_grad_norm |-> FloatVal(DefaultMaxGradNorm, Tenth)]
    /\ ppo_cfg = args
    /\ phase = "none"
    /\ td = <<>>
    /\ rollout = NoRollout
    /\ out = NoOut
    /\ mini_batch_size = -1
    /\ order = <<>>
    /\ batches = <<>>
    /\ epoch = 0
    /\ sub_td = NoSub
    /\ loc = NoLocals
    /\ events = <<>>
    /\ params = 0
    /\ params0 = 0
    /\ nLoss = 0
    /\ nStep = 0
    /\ error = "none"
    /\ ret = NoRet

(***************************************************************************)
(* PPO.__init__ (lines 61-111).                                            *)
(***************************************************************************)
PPOInit(A) ==
    /\ pc = "new"
    /\ \E a \in A :
        /\ args' = a
        /\ ppo_cfg' = MakeCfg(a)
    /\ pc' = "ready"
    /\ UNCHANGED <<phase, td, rollout, out, mini_batch_size, order, batches, epoch,
                   sub_td, loc, events, params, params0, nLoss, nStep, error, ret>>

(***************************************************************************)
(* shared_step.                                                            *)
(***************************************************************************)
\* what a call of shared_step does first (lines 131-134)
StepEntry(ph, recs) ==
    /\ pc = "ready"
    /\ phase' = ph
    /\ rollout' = [recs |-> recs, version |-> params]
    /\ params0' = params
    /\ order' = <<>>
    /\ batches' = <<>>
    /\ epoch' = 0
    /\ sub_td' = NoSub
    /\ loc' = NoLocals
    /\ events' = <<>>
    /\ nLoss' = 0
    /\ nStep' = 0
    /\ UNCHANGED <<args, ppo_cfg, params>>

\* lines 137-162: the train branch up to the DataLoader
TrainSetup(recs) ==
    /\ out' = RolloutOut(recs, params)
    /\ ret' = NoRet
    /\ IF TypeErrorRaised(ppo_cfg.mini_batch_size)
       THEN /\ td' = <<>>
            /\ mini_batch_size' = -1
            /\ error' = "ValueError: mini_batch_size must be an integer or a float."
            /\ pc' = "raised"
       ELSE /\ td' = recs
            /\ mini_batch_size' =
                   EffectiveMiniBatchSize(Len(recs), ppo_cfg.mini_batch_size)
            /\ IF DataLoaderRejects(mini_batch_size')
               THEN /\ error' = "ValueError: batch_size should be a positive integer value"
                    /\ pc' = "raised"
               ELSE /\ error' = "none"
                    /\ pc' = "epoch_top"

\* lines 234-235 when the train branch is skipped
EvalReturn(recs) ==
    /\ td' = <<>>
    /\ mini_batch_size' = -1
    /\ out' = RolloutOut(recs, params)
    /\ error' = "none"
    /\ ret' = Return(out')
    /\ pc' = "done"

\* the test of the phase (line 136) left out
SharedStepEval_AlwaysTrains ==
    \E ph \in Phases \ {"train"}, B \in 1..MaxB : \E recs \in Rollouts(B) :
        /\ StepEntry(ph, recs)
        /\ TrainSetup(recs)

\* phase # "train": lines 131-136 and 234-235
SharedStepEval ==
    \E ph \in Phases \ {"train"}, B \in 1..MaxB : \E recs \in Rollouts(B) :
        /\ StepEntry(ph, recs)
        /\ EvalReturn(recs)

\* phase = "train": lines 131-162
SharedStepTrain ==
    \E B \in 1..MaxB : \E recs \in Rollouts(B) :
        /\ StepEntry("train", recs)
        /\ TrainSetup(recs)

\* line 164-165: one more inner epoch begins; the DataLoader shuffles
EpochStart ==
    /\ pc = "epoch_top"
    /\ epoch < ppo_cfg.ppo_epochs
    /\ epoch' = epoch + 1
    /\ \E p \in Perms(Len(td)) : order' = p
    /\ batches' = <<>>
    /\ pc' = "in_epoch"
    /\ UNCHANGED <<args, ppo_cfg, phase, td, rollout, out, mini_batch_size, sub_td,
                   loc, events, params, params0, nLoss, nStep, error, ret>>

\* lines 165-223: one minibatch, from the DataLoader to opt.step()
MiniBatchUpdate(idx, ll, entropy, value_pred) ==
    /\ sub_td' = SubTd(td, idx)
    /\ out' = ScoreOut(sub_td', params)
    /\ loc' = Locals(sub_td', ll, entropy, value_pred, ppo_cfg, params)
    /\ events' = UpdateEvents(ppo_cfg)
    /\ nLoss' = nLoss + Count(events', "loss")
    /\ nStep' = nStep + Count(events', "step")
    /\ params' = params + Count(events', "step")
    /\ batches' = Append(batches, idx)
    /\ pc' = IF Consumed + Len(idx) >= Len(order) THEN "epoch_top" ELSE "in_epoch"
    /\ UNCHANGED <<args, ppo_cfg, phase, td, rollout, mini_batch_size, order, epoch,
                   params0, error, ret>>

\* the policy and critic outputs drawn for one minibatch: every instance's
\* log-likelihood moves by d, every value estimate is v, every entropy e
InnerStep ==
    /\ pc = "in_epoch"
    /\ LET idx == NextBatch(order, Consumed, mini_batch_size)
           n == Len(idx)
       IN  \E d \in LlDrift, e \in Entropies, v \in ValuePreds :
               MiniBatchUpdate(idx, [i \in 1..n |-> td[idx[i]].logprobs + d],
                               [i \in 1..n |-> e], [i \in 1..n |-> v])

\* lines 225-235, after the last inner epoch; `loss` is unbound when the
\* loop body never ran
Finish ==
    /\ pc = "epoch_top"
    /\ epoch >= ppo_cfg.ppo_epochs
    /\ IF loc.loss.unit = "None"
       THEN /\ error' = "UnboundLocalError: loss"
            /\ pc' = "raised"
            /\ UNCHANGED <<out, ret>>
       ELSE /\ out' = OutUpdate(out, loc)
            /\ ret' = Return(out')
            /\ pc' = "done"
            /\ UNCHANGED error
    /\ UNCHANGED <<args, ppo_cfg, phase, td, rollout, mini_batch_size, order, batches,
                   epoch, sub_td, loc, events, params, params0, nLoss, nStep>>

Next ==
    \/ PPOInit(MainArgs)
    \/ SharedStepEval
    \/ SharedStepTrain
    \/ EpochStart
    \/ InnerStep
    \/ Finish

Spec == Init /\ [][Next]_vars

(***************************************************************************)
(* The configuration specification: the constructor over a wide range of   *)
(* arguments.                                                              *)
(***************************************************************************)
NextCfg == PPOInit(AllArgs)

SpecCfg == Init /\ [][NextCfg]_vars

(***************************************************************************)
(* The loss specification: one minibatch covering the whole batch, with    *)
(* the policy and critic outputs drawn per instance.  It starts where the  *)
(* training step stands after line 165 in its first inner epoch.           *)
(***************************************************************************)
LossArgs ==
    [clip_range : {-DefaultClipRange, DefaultClipRange},
     ppo_epochs : {1},
     mini_batch_size : {IntVal(0)},
     vf_lambda : {DefaultVfLambda},
     entropy_lambda : {0, 1},
     normalize_adv : BOOLEAN,
     max_grad_norm : {FloatVal(DefaultMaxGradNorm, Tenth)}]

WideOutcomes == {[action |-> 0, logprobs |-> -1, reward |-> r] : r \in {0, 2}}
WideDrift == {-1, 0, 1, 2}

InitLoss ==
    \E a \in LossArgs, B \in 1..MaxB : \E recs \in [1..B -> WideOutcomes] :
        /\ pc = "in_epoch"
        /\ args = a
        /\ ppo_cfg = MakeCfg(a)
        /\ phase = "train"
        /\ td = recs
        /\ rollout = [recs |-> recs, version |-> 0]
        /\ out = RolloutOut(recs, 0)
        /\ mini_batch_size = EffectiveMiniBatchSize(B, ppo_cfg.mini_batch_size)
        /\ order = [i \in 1..B |-> i]
        /\ batches = <<>>
        /\ epoch = 1
        /\ sub_td = NoSub
        /\ loc = NoLocals
        /\ events = <<>>
        /\ params = 0
        /\ params0 = 0
        /\ nLoss = 0
        /\ nStep = 0
        /\ error = "none"
        /\ ret = NoRet

InnerStepWide ==
    /\ pc = "in_epoch"
    /\ LET idx == NextBatch(order, Consumed, mini_batch_size)
           n == Len(idx)
       IN  \E d \in [1..n -> WideDrift], e \in Entropies, v \in [1..n -> ValuePreds] :
               MiniBatchUpdate(idx, [i \in 1..n |-> td[idx[i]].logprobs + d[i]],
                               [i \in 1..n |-> e], v)

NextLoss == InnerStepWide

SpecLoss == InitLoss /\ [][NextLoss]_vars

(***************************************************************************)
(* Properties.                                                             *)
(***************************************************************************)
BatchSize == Len(rollout.recs)
Started == pc \notin {"new", "ready"}
TypeErrorText == "ValueError: mini_batch_size must be an integer or a float."
BatchSizeErrorText == "ValueError: batch_size should be a positive integer value"
LoopLeft ==
    \/ pc = "done"
    \/ pc = "epoch_top" /\ epoch >= ppo_cfg.ppo_epochs
    \/ pc = "raised" /\ error = "UnboundLocalError: loss"

\* a positive integer, or a fraction in (0, 1]
ValidMiniBatchSize(mbs) ==
    \/ mbs.kind = "int" /\ mbs.num >= 1
    \/ mbs.kind = "float" /\ mbs.num > 0 /\ mbs.num <= mbs.den

ConfiguredSize(B, mbs) ==
    IF mbs.kind = "int" THEN mbs.num ELSE (B * mbs.num) \div mbs.den

\* C1: for every valid mini_batch_size and every batch size B >= 1, a train
\* step's effective minibatch size is min(configured size, B), is at most B,
\* and in every inner epoch the minibatches partition the batch: the
\* DataLoader is built, no index is served twice, and at the end of an epoch
\* every index of the batch has been served exactly once.
C1_EffectiveSizePartitions ==
    (/\ Started
     /\ phase = "train"
     /\ ValidMiniBatchSize(ppo_cfg.mini_batch_size)
     /\ ppo_cfg.ppo_epochs >= 1)
    => /\ error # BatchSizeErrorText
       /\ mini_batch_size = Min(ConfiguredSize(BatchSize, ppo_cfg.mini_batch_size),
                                BatchSize)
       /\ mini_batch_size <= BatchSize
       /\ \A i \in 1..BatchSize : Count(Concat(batches), i) <= 1
       /\ (pc = "epoch_top" /\ epoch >= 1)
            => \A i \in 1..BatchSize : Count(Concat(batches), i) = 1

\* C2: a train step that leaves the inner loop has taken exactly
\* ppo_epochs * ceil(B / m) optimizer steps, ceil(B / m) in every inner epoch,
\* one per minibatch; with m = B that is one minibatch and one optimizer step
\* per inner epoch.
C2_OptimizerStepCount ==
    (phase = "train" /\ pc \in {"epoch_top", "in_epoch", "done", "raised"}
        /\ mini_batch_size >= 1)
    => /\ LoopLeft => nStep = Max(ppo_cfg.ppo_epochs, 0) * CeilDiv(BatchSize, mini_batch_size)
       /\ (pc = "epoch_top" /\ epoch >= 1)
            => /\ Len(batches) = CeilDiv(BatchSize, mini_batch_size)
               /\ nStep = epoch * CeilDiv(BatchSize, mini_batch_size)
       /\ pc = "in_epoch"
            => nStep = (epoch - 1) * CeilDiv(BatchSize, mini_batch_size) + Len(batches)
       /\ (mini_batch_size = BatchSize /\ epoch >= 1)
            => /\ Len(batches) <= 1
               /\ pc = "epoch_top" => (Len(batches) = 1 /\ nStep = epoch)

C2_Witness ==
    /\ pc = "done"
    /\ phase = "train"
    /\ BatchSize = 3
    /\ mini_batch_size = 2
    /\ ppo_cfg.ppo_epochs = 2
    /\ nStep = 4

\* C3: the constructor stores mini_batch_size normalised (an integer <= 0
\* becomes 128, a fraction outside (0, 1] becomes 0.25, anything else is kept)
\* and every other hyperparameter exactly as given.
C3_ConfigNormalised ==
    (pc # "new")
    => /\ (args.mini_batch_size.kind = "int" /\ args.mini_batch_size.num <= 0)
            => ppo_cfg.mini_batch_size = IntVal(DefaultMiniBatchSize)
       /\ (args.mini_batch_size.kind = "float"
             /\ ~(args.mini_batch_size.num > 0
                    /\ args.mini_batch_size.num <= args.mini_batch_size.den))
            => ppo_cfg.mini_batch_size = FloatVal(DefaultFractionNum, DefaultFractionDen)
       /\ (ValidMiniBatchSize(args.mini_batch_size) \/ args.mini_batch_size.kind = "other")
            => ppo_cfg.mini_batch_size = args.mini_batch_size
       /\ ppo_cfg.clip_range = args.clip_range
       /\ ppo_cfg.ppo_epochs = args.ppo_epochs
       /\ ppo_cfg.vf_lambda = args.vf_lambda
       /\ ppo_cfg.entropy_lambda = args.entropy_lambda
       /\ ppo_cfg.normalize_adv = args.normalize_adv
       /\ ppo_cfg.max_grad_norm = args.max_grad_norm

C3_Witness ==
    /\ pc = "ready"
    /\ args.mini_batch_size = IntVal(0)
    /\ ppo_cfg.mini_batch_size = IntVal(DefaultMiniBatchSize)
    /\ args.clip_range < 0
    /\ ppo_cfg.clip_range = args.clip_range

\* C4: with a mini_batch_size that is neither an integer nor a float, a train
\* step raises the configuration error and stops: no minibatch loss is
\* computed, no optimizer step is taken, the parameters are those the step
\* began with, and nothing is returned.
C4_TypeErrorAborts ==
    (Started /\ phase = "train" /\ ppo_cfg.mini_batch_size.kind \notin {"int", "float"})
    => /\ pc = "raised"
       /\ error = TypeErrorText
       /\ nLoss = 0
       /\ nStep = 0
       /\ loc = NoLocals
       /\ batches = <<>>
       /\ params = params0
       /\ ~ret.returned

C4_Witness ==
    /\ phase = "train"
    /\ ppo_cfg.mini_batch_size = OtherVal
    /\ pc = "raised"
    /\ error = TypeErrorText

\* C5: a train step that returns reports the mean reward of the whole
\* collected rollout, and the total loss, surrogate loss, value loss and mean
\* entropy of the last minibatch of the last inner epoch.
C5_ReportedMetrics ==
    (pc = "done" /\ phase = "train")
    => /\ ret.metrics.reward.num * BatchSize
            = SumSeq([i \in 1..BatchSize |-> rollout.recs[i].reward])
              * ret.metrics.reward.den
       /\ ret.metrics.loss = loc.loss
       /\ ret.metrics.surrogate_loss = loc.surrogate_loss
       /\ ret.metrics.value_loss = loc.value_loss
       /\ ret.metrics.entropy = loc.entropy
       /\ sub_td.idx = batches[Len(batches)]
       /\ epoch = ppo_cfg.ppo_epochs

\* C6 as stated: every recomputation of the log-probabilities in the inner
\* loop, the first one included, uses parameters strictly newer than those
\* the rollout was collected under.
C6_StrictlyOlder ==
    (phase = "train" /\ nLoss >= 1) => rollout.version < loc.version

\* C6 amended: the rollout's parameters are never newer than those of a
\* recomputation; the first minibatch of the first inner epoch is recomputed
\* under the very parameters of the rollout, and the j-th minibatch of the
\* step under the parameters j - 1 optimizer steps later.
C6_NeverNewer ==
    (phase = "train" /\ nLoss >= 1)
    => /\ rollout.version = params0
       /\ rollout.version <= loc.version
       /\ loc.version = rollout.version + (nLoss - 1)
       /\ out.version = loc.version
       /\ nLoss = 1 => loc.version = rollout.version
       /\ nLoss > 1 => rollout.version < loc.version

C6_Witness ==
    /\ phase = "train"
    /\ nLoss = 3
    /\ epoch = 2
    /\ loc.version = rollout.version + 2

\* C7: when every ratio of a minibatch exceeds 1 + clip_range and every
\* advantage (after the optional normalisation) is positive, the surrogate
\* loss is -(1 + clip_range) * mean(advantage), whatever the ratios are.
C7_ClipBoundary ==
    (/\ nLoss >= 1
     /\ loc.adv.unit \in {"one", "std"}
     /\ \A i \in 1..Len(loc.ratio) :
            /\ loc.ratio[i] > Tenth + ppo_cfg.clip_range
            /\ loc.adv.num[i] > 0)
    => /\ loc.surrogate_loss.num
            = 0 - (Tenth + ppo_cfg.clip_range) * SumSeq(loc.adv.num)
       /\ loc.surrogate_loss.den = Tenth * Len(loc.adv.num)
       /\ loc.surrogate_loss.unit = loc.adv.unit

C7_Witness ==
    /\ nLoss >= 1
    /\ Len(loc.ratio) >= 2
    /\ loc.adv.unit = "one"
    /\ \A i \in 1..Len(loc.ratio) :
            /\ loc.ratio[i] > Tenth + ppo_cfg.clip_range
            /\ loc.adv.num[i] > 0
    /\ loc.ratio[1] # loc.ratio[2]
    /\ loc.adv.num[1] # loc.adv.num[2]
    /\ ppo_cfg.clip_range > 0

\* C8: every minibatch is updated in the order loss computation, zero
\* gradients, one backpropagation, gradient clipping exactly when
\* max_grad_norm is not None, one optimizer step; each loss computation sees
\* the parameters left by the optimizer steps of all earlier minibatches.
C8_UpdateOrder ==
    (phase = "train" /\ nLoss >= 1)
    => /\ events = IF ppo_cfg.max_grad_norm = NoneVal
                   THEN <<"loss", "zero_grad", "backward", "step">>
                   ELSE <<"loss", "zero_grad", "backward", "clip_gradients", "step">>
       /\ nStep = nLoss
       /\ params = params0 + nStep
       /\ loc.version = params0 + (nLoss - 1)
       /\ loc.version = params - 1

C8_Witness ==
    /\ phase = "train"
    /\ nLoss = 2
    /\ epoch = 1
    /\ ppo_cfg.max_grad_norm = NoneVal
    /\ events = <<"loss", "zero_grad", "backward", "step">>

\* C9: the rollout record holds, from before the first inner epoch to the
\* end of the step, exactly what the rollout produced, and every minibatch
\* reads for each of its instances the logprobs, reward and action stored for
\* that instance.
C9_RolloutReadOnly ==
    (phase = "train" /\ pc \in {"epoch_top", "in_epoch", "done"})
    => /\ td = rollout.recs
       /\ Len(sub_td.rec) = Len(sub_td.idx)
       /\ \A i \in 1..Len(sub_td.idx) : sub_td.rec[i] = rollout.recs[sub_td.idx[i]]

C9_Witness ==
    /\ phase = "train"
    /\ epoch = 2
    /\ nLoss >= 3
    /\ Len(sub_td.idx) = 2
    /\ sub_td.idx[1] > sub_td.idx[2]
    /\ sub_td.rec[1] # sub_td.rec[2]
    /\ td = rollout.recs

\* C10: a step whose phase is not "train" only collects the rollout: no
\* minibatch, no loss computation, no optimizer step, parameters unchanged,
\* no error even when mini_batch_size has an unsupported type; it returns a
\* loss of None and the metrics of the rollout's output.
C10_EvalOnlyCollects ==
    (Started /\ phase # "train")
    => /\ pc = "done"
       /\ error = "none"
       /\ nLoss = 0
       /\ nStep = 0
       /\ epoch = 0
       /\ batches = <<>>
       /\ events = <<>>
       /\ params = params0
       /\ ret.returned
       /\ ret.loss = NoneLoss
       /\ out = RolloutOut(rollout.recs, params0)
       /\ ret.metrics = LogMetrics(out)

C10_Witness ==
    /\ phase = "val"
    /\ pc = "done"
    /\ ppo_cfg.mini_batch_size = OtherVal
    /\ ret.returned
    /\ BatchSize = 2

====
